---------------------------- MODULE Spec2Model ----------------------------
(***************************************************************************)
(* petcam: one capture thread (set_frames) overwrites a one-element deque  *)
(* (frame_buffer); every /video connection runs the async generator        *)
(* get_frames, which polls the deque and yields multipart chunks; the      *)
(* lifespan context manager starts the thread and sets the stop event.     *)
(*                                                                         *)
(* Bytes are integers 0..255, a bytes object is a sequence of them.        *)
(* The capture thread runs in parallel with the event loop, so every       *)
(* access of frame_buffer is a step of its own; the code between two       *)
(* accesses of shared state is folded into the step that follows it.       *)
(***************************************************************************)
EXTENDS Integers, Sequences, FiniteSets, TLC

\* ------------------------------------------------------------------ bounds
\* The camera delivers at most MaxFrames raw frames; later reads fail.
MaxFrames == 2
\* The /video connections that may be opened.
Sessions == {"s1", "s2"}

\* --------------------------------------------------------------- constants
\* deque(maxlen=1)
maxlen == 1

VARIABLES
    frame_buffer,  \* the shared deque, oldest element first
    stop_event,    \* "uncreated", "unset" or "set"
    lpc,           \* lifespan: where the context manager is
    lexc,          \* lifespan: the exception in flight, "none" if none
    host,          \* what the host has seen of lifespan
    nset,          \* how many times stop_event.set() has run
    stopAt,        \* Len(published) when stop_event.set() ran, -1 before
    cpc,           \* set_frames: where the thread is
    cexit,         \* set_frames: why it returned, "none" while it has not
    nframes,       \* how many raw frames the camera has delivered
    frame,         \* set_frames local: the raw frame (its ordinal), 0 if none
    jpeg,          \* set_frames local: the encoded frame, <<>> if none
    published,     \* history: every value appended to frame_buffer, in order
    spc,           \* get_frames, per session: where the generator is
    jpeg_bytes,    \* get_frames local, per session: the frame read, <<>> if none or if the generator has ended
    sent           \* per session: the previous and the latest chunk yielded to the host

lifeVars == <<stop_event, lpc, lexc, host, nset, stopAt>>
capVars == <<cpc, cexit, nframes, frame, jpeg>>
sessVars == <<spc, jpeg_bytes, sent>>
vars == <<frame_buffer, stop_event, lpc, lexc, host, nset, stopAt, cpc, cexit,
          nframes, frame, jpeg, published, spc, jpeg_bytes, sent>>

\* ----------------------------------------------------------------- helpers
Range(s) == {s[i] : i \in 1..Len(s)}

\* Mutants of deque.append: no maxlen (the deque grows); the new element
\* dropped instead of the old one; a full deque cleared, the new element
\* lost with the old one.
DequeAppendDropsAll(d, x) == IF Len(d) >= maxlen THEN <<>> ELSE Append(d, x)
DequeAppendUnbounded(d, x) == Append(d, x)
DequeAppendKeepsOld(d, x) ==
    LET a == Append(d, x)
    IN  IF Len(a) > maxlen THEN SubSeq(a, 1, maxlen) ELSE a

\* deque.append on a deque with maxlen: append on the right, and when the
\* deque is then over maxlen, drop from the left.
DequeAppend(d, x) ==
    LET a == Append(d, x)
    IN  IF Len(a) > maxlen THEN SubSeq(a, Len(a) - maxlen + 1, Len(a)) ELSE a

\* frame_buffer[-1]
DequeLast(d) == d[Len(d)]

\* cv2.imencode(".jpg", frame)[1].tobytes() of the n-th raw frame: SOI marker,
\* the image data (here the frame's ordinal), EOI marker.
JpegOf(n) == <<255, 216, n, 255, 217>>

\* Mutant of the chunk: the closing CR LF left out.
ChunkNoTrailer(b) ==
    <<45, 45, 102, 114, 97, 109, 101, 13, 10,
      67, 111, 110, 116, 101, 110, 116, 45, 84, 121, 112, 101, 58, 32,
      105, 109, 97, 103, 101, 47, 106, 112, 101, 103, 13, 10, 13, 10>>
    \o b

\* b'--frame\r\nContent-Type: image/jpeg\r\n\r\n' + jpeg_bytes + b'\r\n'
Chunk(b) ==
    <<45, 45, 102, 114, 97, 109, 101, 13, 10,
      67, 111, 110, 116, 101, 110, 116, 45, 84, 121, 112, 101, 58, 32,
      105, 109, 97, 103, 101, 47, 106, 112, 101, 103, 13, 10, 13, 10>>
    \o b \o <<13, 10>>

\* What is recorded of a session's output: the previous and the latest chunk.
LastTwo(s) == IF Len(s) > 2 THEN Tail(s) ELSE s

\* -------------------------------------------------------------------- Init
Init ==
    /\ frame_buffer = <<>>
    /\ stop_event = "uncreated"
    /\ lpc = "init"
    /\ lexc = "none"
    /\ host = "starting"
    /\ nset = 0
    /\ stopAt = -1
    /\ cpc = "notstarted"
    /\ cexit = "none"
    /\ nframes = 0
    /\ frame = 0
    /\ jpeg = <<>>
    /\ published = <<>>
    /\ spc = [s \in Sessions |-> "idle"]
    /\ jpeg_bytes = [s \in Sessions |-> <<>>]
    /\ sent = [s \in Sessions |-> <<>>]

\* ---------------------------------------------------------------- lifespan
\* stop_event = threading.Event()
LifespanEnter ==
    /\ lpc = "init"
    /\ stop_event' = "unset"
    /\ lpc' = "try"
    /\ UNCHANGED <<frame_buffer, lexc, host, nset, stopAt, published>>
    /\ UNCHANGED capVars /\ UNCHANGED sessVars

\* Mutant of the startup: no finally clause on the path where the thread
\* could not be started.
LifespanStartNoFinally ==
    /\ lpc = "try"
    /\ \E started \in BOOLEAN :
         IF started
         THEN /\ cpc' = "open"
              /\ lpc' = "serving"
              /\ host' = "up"
              /\ lexc' = lexc
         ELSE /\ cpc' = cpc
              /\ lpc' = "exited"
              /\ host' = "startup_failed"
              /\ lexc' = "wrapped"
    /\ UNCHANGED <<frame_buffer, stop_event, nset, stopAt, published,
                   cexit, nframes, frame, jpeg>>
    /\ UNCHANGED sessVars

\* camera_thread = Thread(...); camera_thread.start(); yield
\* started = FALSE: Thread() or start() raises (no thread is running then).
LifespanStart ==
    /\ lpc = "try"
    /\ \E started \in BOOLEAN :
         IF started
         THEN /\ cpc' = "open"
              /\ lpc' = "serving"
              /\ host' = "up"
              /\ lexc' = lexc
         ELSE /\ cpc' = cpc
              /\ lpc' = "except"
              /\ host' = host
              /\ lexc' = "raised"
    /\ UNCHANGED <<frame_buffer, stop_event, nset, stopAt, published,
                   cexit, nframes, frame, jpeg>>
    /\ UNCHANGED sessVars

\* yield returns: the service shuts down and the host resumes the generator.
LifespanLeave ==
    /\ lpc = "serving"
    /\ lpc' = "finally"
    /\ UNCHANGED <<frame_buffer, stop_event, lexc, host, nset, stopAt, published>>
    /\ UNCHANGED capVars /\ UNCHANGED sessVars

\* except Exception as e: raise Exception(f"{e}")
LifespanExcept ==
    /\ lpc = "except"
    /\ lexc' = "wrapped"
    /\ lpc' = "finally"
    /\ UNCHANGED <<frame_buffer, stop_event, host, nset, stopAt, published>>
    /\ UNCHANGED capVars /\ UNCHANGED sessVars

\* Mutant of the finally clause: camera_thread.join() after stop_event.set().
LifespanFinallyJoins ==
    /\ lpc = "finally"
    /\ cpc \in {"notstarted", "done"}
    /\ stop_event' = "set"
    /\ nset' = nset + 1
    /\ stopAt' = Len(published)
    /\ lpc' = "exited"
    /\ host' = IF lexc = "wrapped" THEN "startup_failed" ELSE "down"
    /\ UNCHANGED <<frame_buffer, lexc, published>>
    /\ UNCHANGED capVars /\ UNCHANGED sessVars

\* finally: stop_event.set(); then the generator ends, or the exception in
\* flight leaves it.
LifespanFinally ==
    /\ lpc = "finally"
    /\ stop_event' = "set"
    /\ nset' = nset + 1
    /\ stopAt' = Len(published)
    /\ lpc' = "exited"
    /\ host' = IF lexc = "wrapped" THEN "startup_failed" ELSE "down"
    /\ UNCHANGED <<frame_buffer, lexc, published>>
    /\ UNCHANGED capVars /\ UNCHANGED sessVars

\* -------------------------------------------------------------- set_frames
\* Mutant of the open check: the return left out.
CaptureOpenNoReturn ==
    /\ cpc = "open"
    /\ \E opened \in BOOLEAN :
         IF opened
         THEN cpc' = "loop" /\ cexit' = cexit
         ELSE cpc' = "loop" /\ cexit' = "no_camera"
    /\ UNCHANGED <<frame_buffer, published, nframes, frame, jpeg>>
    /\ UNCHANGED lifeVars /\ UNCHANGED sessVars

\* cap = cv2.VideoCapture(0); if not cap.isOpened(): return
CaptureOpen ==
    /\ cpc = "open"
    /\ \E opened \in BOOLEAN :
         IF opened
         THEN cpc' = "loop" /\ cexit' = cexit
         ELSE cpc' = "done" /\ cexit' = "no_camera"
    /\ UNCHANGED <<frame_buffer, published, nframes, frame, jpeg>>
    /\ UNCHANGED lifeVars /\ UNCHANGED sessVars

\* Mutant of the loop condition: while True.
CaptureLoopIgnoresStop ==
    /\ cpc = "loop"
    /\ cpc' = "read"
    /\ UNCHANGED <<frame_buffer, published, cexit, nframes, frame, jpeg>>
    /\ UNCHANGED lifeVars /\ UNCHANGED sessVars

\* while not stop_event.is_set():
CaptureLoop ==
    /\ cpc = "loop"
    /\ IF stop_event = "set"
       THEN cpc' = "done" /\ cexit' = "stopped"
       ELSE cpc' = "read" /\ cexit' = cexit
    /\ UNCHANGED <<frame_buffer, published, nframes, frame, jpeg>>
    /\ UNCHANGED lifeVars /\ UNCHANGED sessVars

\* Mutants of the read: break instead of continue on a failed read; a failed
\* read that clears the slot.
CaptureReadBreaks ==
    /\ cpc = "read"
    /\ \E r \in {"ok", "fail", "raise"} :
         /\ r = "ok" => nframes < MaxFrames
         /\ CASE r = "ok" ->
                   /\ nframes' = nframes + 1
                   /\ frame' = nframes + 1
                   /\ cpc' = "encode"
                   /\ cexit' = cexit
              [] r = "fail" ->
                   /\ nframes' = nframes
                   /\ frame' = 0
                   /\ cpc' = "done"
                   /\ cexit' = "stopped"
              [] r = "raise" ->
                   /\ nframes' = nframes
                   /\ frame' = frame
                   /\ cpc' = "done"
                   /\ cexit' = "exception"
    /\ UNCHANGED <<frame_buffer, published, jpeg>>
    /\ UNCHANGED lifeVars /\ UNCHANGED sessVars
CaptureReadClears ==
    /\ cpc = "read"
    /\ \E r \in {"ok", "fail", "raise"} :
         /\ r = "ok" => nframes < MaxFrames
         /\ CASE r = "ok" ->
                   /\ nframes' = nframes + 1
                   /\ frame' = nframes + 1
                   /\ cpc' = "encode"
                   /\ cexit' = cexit
                   /\ frame_buffer' = frame_buffer
              [] r = "fail" ->
                   /\ nframes' = nframes
                   /\ frame' = 0
                   /\ cpc' = "loop"
                   /\ cexit' = cexit
                   /\ frame_buffer' = <<>>
              [] r = "raise" ->
                   /\ nframes' = nframes
                   /\ frame' = frame
                   /\ cpc' = "done"
                   /\ cexit' = "exception"
                   /\ frame_buffer' = frame_buffer
    /\ UNCHANGED <<published, jpeg>>
    /\ UNCHANGED lifeVars /\ UNCHANGED sessVars

\* ret, frame = cap.read(); if not ret: continue
\* "raise": cap.read() raises, which the outer except catches.
CaptureRead ==
    /\ cpc = "read"
    /\ \E r \in {"ok", "fail", "raise"} :
         /\ r = "ok" => nframes < MaxFrames
         /\ CASE r = "ok" ->
                   /\ nframes' = nframes + 1
                   /\ frame' = nframes + 1
                   /\ cpc' = "encode"
                   /\ cexit' = cexit
              [] r = "fail" ->
                   /\ nframes' = nframes
                   /\ frame' = 0
                   /\ cpc' = "loop"
                   /\ cexit' = cexit
              [] r = "raise" ->
                   /\ nframes' = nframes
                   /\ frame' = frame
                   /\ cpc' = "done"
                   /\ cexit' = "exception"
    /\ UNCHANGED <<frame_buffer, published, jpeg>>
    /\ UNCHANGED lifeVars /\ UNCHANGED sessVars

\* Mutant of the encode: the exception is caught inside the loop, which goes
\* on with the next iteration.
CaptureEncodeSwallows ==
    /\ cpc = "encode"
    /\ \E r \in {"ok", "fail", "raise"} :
         CASE r = "ok" ->
                /\ jpeg' = JpegOf(frame)
                /\ cpc' = "publish"
                /\ cexit' = cexit
           [] r = "fail" ->
                /\ jpeg' = <<>>
                /\ cpc' = "loop"
                /\ cexit' = cexit
           [] r = "raise" ->
                /\ jpeg' = jpeg
                /\ cpc' = "loop"
                /\ cexit' = "exception"
    /\ UNCHANGED <<frame_buffer, published, nframes, frame>>
    /\ UNCHANGED lifeVars /\ UNCHANGED sessVars

\* ret, jpeg = cv2.imencode(".jpg", frame.copy()); if not ret: continue
CaptureEncode ==
    /\ cpc = "encode"
    /\ \E r \in {"ok", "fail", "raise"} :
         CASE r = "ok" ->
                /\ jpeg' = JpegOf(frame)
                /\ cpc' = "publish"
                /\ cexit' = cexit
           [] r = "fail" ->
                /\ jpeg' = <<>>
                /\ cpc' = "loop"
                /\ cexit' = cexit
           [] r = "raise" ->
                /\ jpeg' = jpeg
                /\ cpc' = "done"
                /\ cexit' = "exception"
    /\ UNCHANGED <<frame_buffer, published, nframes, frame>>
    /\ UNCHANGED lifeVars /\ UNCHANGED sessVars

\* Mutant of the publish: it waits while a session is reading the slot.
CapturePublishWaits ==
    /\ cpc = "publish"
    /\ \A s \in Sessions : spc[s] \notin {"check", "read"}
    /\ frame_buffer' = DequeAppend(frame_buffer, jpeg)
    /\ published' = Append(published, jpeg)
    /\ cpc' = "sleep"
    /\ UNCHANGED <<cexit, nframes, frame, jpeg>>
    /\ UNCHANGED lifeVars /\ UNCHANGED sessVars

\* frame_buffer.append(jpeg.tobytes())
CapturePublish ==
    /\ cpc = "publish"
    /\ frame_buffer' = DequeAppend(frame_buffer, jpeg)
    /\ published' = Append(published, jpeg)
    /\ cpc' = "sleep"
    /\ UNCHANGED <<cexit, nframes, frame, jpeg>>
    /\ UNCHANGED lifeVars /\ UNCHANGED sessVars

\* time.sleep(0.034)
CaptureSleep ==
    /\ cpc = "sleep"
    /\ cpc' = "loop"
    /\ UNCHANGED <<frame_buffer, published, cexit, nframes, frame, jpeg>>
    /\ UNCHANGED lifeVars /\ UNCHANGED sessVars

CaptureNext ==
    \/ CaptureOpen
    \/ CaptureLoop
    \/ CaptureRead
    \/ CaptureEncode
    \/ CapturePublish
    \/ CaptureSleep

\* -------------------------------------------------------------- get_frames
\* GET /video while the service is up: StreamingResponse(get_frames()); the
\* host starts to drain the generator, which runs to await asyncio.sleep(0.1).
Connect(s) ==
    /\ host = "up"
    /\ lpc = "serving"
    /\ spc[s] = "idle"
    /\ spc' = [spc EXCEPT ![s] = "settle"]
    /\ UNCHANGED <<frame_buffer, published, jpeg_bytes, sent>>
    /\ UNCHANGED lifeVars /\ UNCHANGED capVars

\* await asyncio.sleep(0.1) returns; while True: try: await asyncio.sleep(0)
Settle(s) ==
    /\ spc[s] = "settle"
    /\ spc' = [spc EXCEPT ![s] = "yield"]
    /\ UNCHANGED <<frame_buffer, published, jpeg_bytes, sent>>
    /\ UNCHANGED lifeVars /\ UNCHANGED capVars

\* await asyncio.sleep(0) returns: the event loop runs this session again.
Resume(s) ==
    /\ spc[s] = "yield"
    /\ spc' = [spc EXCEPT ![s] = "check"]
    /\ UNCHANGED <<frame_buffer, published, jpeg_bytes, sent>>
    /\ UNCHANGED lifeVars /\ UNCHANGED capVars

\* Mutant of the emptiness check: left out.
CheckIgnoresEmpty(s) ==
    /\ spc[s] = "check"
    /\ spc' = [spc EXCEPT ![s] = "read"]
    /\ UNCHANGED <<frame_buffer, published, jpeg_bytes, sent>>
    /\ UNCHANGED lifeVars /\ UNCHANGED capVars

\* Mutant of the loop: while not stop_event.is_set(), so that the generator
\* returns once the stop event is set.
CheckEndsWhenStopped(s) ==
    /\ spc[s] = "check"
    /\ spc' = [spc EXCEPT ![s] = IF stop_event = "set" THEN "ended"
                                 ELSE IF Len(frame_buffer) = 0 THEN "yield"
                                 ELSE "read"]
    /\ UNCHANGED <<frame_buffer, published, jpeg_bytes, sent>>
    /\ UNCHANGED lifeVars /\ UNCHANGED capVars

\* if not frame_buffer: continue
Check(s) ==
    /\ spc[s] = "check"
    /\ spc' = [spc EXCEPT ![s] = IF Len(frame_buffer) = 0 THEN "yield" ELSE "read"]
    /\ UNCHANGED <<frame_buffer, published, jpeg_bytes, sent>>
    /\ UNCHANGED lifeVars /\ UNCHANGED capVars

\* Mutant of the peek: frame_buffer.pop(), which takes the frame out.
PeekPops(s) ==
    /\ spc[s] = "read"
    /\ IF Len(frame_buffer) = 0
       THEN /\ spc' = [spc EXCEPT ![s] = "faulted"]
            /\ jpeg_bytes' = [jpeg_bytes EXCEPT ![s] = <<>>]
            /\ frame_buffer' = frame_buffer
       ELSE /\ spc' = [spc EXCEPT ![s] = "emit"]
            /\ jpeg_bytes' = [jpeg_bytes EXCEPT ![s] = DequeLast(frame_buffer)]
            /\ frame_buffer' = SubSeq(frame_buffer, 1, Len(frame_buffer) - 1)
    /\ UNCHANGED <<published, sent>>
    /\ UNCHANGED lifeVars /\ UNCHANGED capVars

\* jpeg_bytes = frame_buffer[-1]; on an empty deque an IndexError, which
\* the except clause wraps and raises out of the generator.
Peek(s) ==
    /\ spc[s] = "read"
    /\ IF Len(frame_buffer) = 0
       THEN /\ spc' = [spc EXCEPT ![s] = "faulted"]
            /\ jpeg_bytes' = [jpeg_bytes EXCEPT ![s] = <<>>]
       ELSE /\ spc' = [spc EXCEPT ![s] = "emit"]
            /\ jpeg_bytes' = [jpeg_bytes EXCEPT ![s] = DequeLast(frame_buffer)]
    /\ UNCHANGED <<frame_buffer, published, sent>>
    /\ UNCHANGED lifeVars /\ UNCHANGED capVars

\* Mutant of the emit: a frame equal to the one emitted last is not emitted
\* again.
EmitDedupes(s) ==
    /\ spc[s] = "emit"
    /\ sent' = [sent EXCEPT ![s] =
                  IF sent[s] # <<>> /\ sent[s][Len(sent[s])] = Chunk(jpeg_bytes[s])
                  THEN sent[s]
                  ELSE LastTwo(Append(sent[s], Chunk(jpeg_bytes[s])))]
    /\ spc' = [spc EXCEPT ![s] = "yield"]
    /\ UNCHANGED <<frame_buffer, published, jpeg_bytes>>
    /\ UNCHANGED lifeVars /\ UNCHANGED capVars

\* Mutant of the emit: a chunk is handed over only while no other session
\* holds one (a lock shared by the sessions, held across the yield).
EmitWaitsForOthers(s) ==
    /\ spc[s] = "emit"
    /\ \A o \in Sessions \ {s} : spc[o] # "emit"
    /\ sent' = [sent EXCEPT ![s] = LastTwo(Append(sent[s], Chunk(jpeg_bytes[s])))]
    /\ spc' = [spc EXCEPT ![s] = "yield"]
    /\ UNCHANGED <<frame_buffer, published, jpeg_bytes>>
    /\ UNCHANGED lifeVars /\ UNCHANGED capVars

\* Mutant of the emit: the await asyncio.sleep(0) moved out of the loop, so
\* that the generator goes from the yield of a chunk straight to the next poll.
EmitSkipsYield(s) ==
    /\ spc[s] = "emit"
    /\ sent' = [sent EXCEPT ![s] = LastTwo(Append(sent[s], Chunk(jpeg_bytes[s])))]
    /\ spc' = [spc EXCEPT ![s] = "check"]
    /\ UNCHANGED <<frame_buffer, published, jpeg_bytes>>
    /\ UNCHANGED lifeVars /\ UNCHANGED capVars

\* yield b'--frame...' + jpeg_bytes + b'\r\n'; the host sends the chunk and
\* asks for the next one, and the generator runs to await asyncio.sleep(0).
Emit(s) ==
    /\ spc[s] = "emit"
    /\ sent' = [sent EXCEPT ![s] = LastTwo(Append(sent[s], Chunk(jpeg_bytes[s])))]
    /\ spc' = [spc EXCEPT ![s] = "yield"]
    /\ UNCHANGED <<frame_buffer, published, jpeg_bytes>>
    /\ UNCHANGED lifeVars /\ UNCHANGED capVars

\* Mutant of the fault: the exception takes every session down with it.
EmitFaultCrashesAll(s) ==
    /\ spc[s] = "emit"
    /\ spc' = [o \in Sessions |-> IF spc[o] \in {"idle", "cancelled"} THEN spc[o] ELSE "faulted"]
    /\ jpeg_bytes' = [o \in Sessions |-> <<>>]
    /\ UNCHANGED <<frame_buffer, published, sent>>
    /\ UNCHANGED lifeVars /\ UNCHANGED capVars

\* An exception while the chunk is built or at the yield:
\* except Exception as e: raise Exception(f"error while getting frames: {e}.")
\* The generator ends and its locals go with it.
EmitFault(s) ==
    /\ spc[s] = "emit"
    /\ spc' = [spc EXCEPT ![s] = "faulted"]
    /\ jpeg_bytes' = [jpeg_bytes EXCEPT ![s] = <<>>]
    /\ UNCHANGED <<frame_buffer, published, sent>>
    /\ UNCHANGED lifeVars /\ UNCHANGED capVars

\* The host stops draining (client disconnect, teardown): CancelledError or
\* GeneratorExit at the await or yield the generator is suspended at; these
\* are not Exceptions, so the except clause lets them through, and the
\* generator ends.
Cancel(s) ==
    /\ spc[s] \in {"settle", "yield", "emit"}
    /\ spc' = [spc EXCEPT ![s] = "cancelled"]
    /\ jpeg_bytes' = [jpeg_bytes EXCEPT ![s] = <<>>]
    /\ UNCHANGED <<frame_buffer, published, sent>>
    /\ UNCHANGED lifeVars /\ UNCHANGED capVars

SessionNext(s) ==
    \/ Connect(s)
    \/ Settle(s)
    \/ Resume(s)
    \/ Check(s)
    \/ Peek(s)
    \/ Emit(s)
    \/ EmitFault(s)
    \/ Cancel(s)

\* The steps by which a session goes on: every step but its end.
SessionRun(s) ==
    \/ Settle(s)
    \/ Resume(s)
    \/ Check(s)
    \/ Peek(s)
    \/ Emit(s)

LifespanNext ==
    \/ LifespanEnter
    \/ LifespanStart
    \/ LifespanLeave
    \/ LifespanExcept
    \/ LifespanFinally

Next ==
    \/ LifespanNext
    \/ CaptureNext
    \/ \E s \in Sessions : SessionNext(s)

Spec == Init /\ [][Next]_vars

\* The capture thread is an OS thread: it keeps being scheduled.
FairSpec == Spec /\ WF_vars(CaptureNext)

\* The event loop runs every session that is ready, in turn (and the host
\* keeps draining it): each session's loop steps are weakly fair.  Nothing
\* is assumed of the thread or of the other sessions.
SessFairSpec == Spec /\ \A s \in Sessions : WF_vars(SessionRun(s))

TypeOK ==
    /\ Len(frame_buffer) <= maxlen
    /\ stop_event \in {"uncreated", "unset", "set"}
    /\ cpc \in {"notstarted", "open", "loop", "read", "encode", "publish", "sleep", "done"}

\* ------------------------------------------------------- claims: vocabulary
\* The bytes of '--frame\r\nContent-Type: image/jpeg\r\n\r\n'
MultipartHeader ==
    <<45, 45, 102, 114, 97, 109, 101, 13, 10, 67, 111, 110, 116, 101, 110, 116,
      45, 84, 121, 112, 101, 58, 32, 105, 109, 97, 103, 101, 47, 106, 112, 101,
      103, 13, 10, 13, 10>>
CRLF == <<13, 10>>

\* The frame a chunk carries: what is between the header and the last CRLF.
FrameOf(chunk) == SubSeq(chunk, Len(MultipartHeader) + 1, Len(chunk) - Len(CRLF))

\* The camera's frames are pairwise different, so a published frame is
\* identified by its place in the publish order.
PubIndex(b) == CHOOSE i \in 1..Len(published) : published[i] = b

\* Steps of a session, read off its program counter.
PeekStep(s) == spc[s] = "read" /\ spc'[s] = "emit"
EmitStep(s) == spc[s] = "emit" /\ spc'[s] = "yield"

\* ---------------------------------------------------------------------- C1
\* C1 (single-slot invariant): the slot never holds more than one frame; it
\* holds nothing before the first publish and the most recently published
\* frame after it; and what a session has read from it is nothing or one
\* whole published frame.
C1_SingleSlot ==
    /\ Len(frame_buffer) <= 1
    /\ frame_buffer = IF published = <<>> THEN <<>>
                      ELSE <<published[Len(published)]>>
    /\ \A s \in Sessions :
         jpeg_bytes[s] = <<>> \/ jpeg_bytes[s] \in Range(published)

\* A session holds the first frame it peeked while the thread has already
\* published a second one.
C1_Witness ==
    /\ Len(published) = 2
    /\ spc["s1"] = "emit"
    /\ jpeg_bytes["s1"] = published[1]
    /\ frame_buffer = <<published[2]>>

\* ---------------------------------------------------------------------- C2
\* C2 (monotonic visibility): a peek returns the frame published last, so
\* never a frame that a later publish has replaced; and of two consecutive
\* chunks of one session the later never carries an earlier-published frame.
C2_MonotonicVisibility ==
    [][\A s \in Sessions :
         /\ PeekStep(s) => jpeg_bytes'[s] = published[Len(published)]
         /\ Len(sent'[s]) = 2 =>
              PubIndex(FrameOf(sent'[s][1])) <= PubIndex(FrameOf(sent'[s][2]))]_vars

\* A session that emitted the first and then the second published frame, and
\* the other session scheduled late: it peeks only now.
C2_Witness ==
    /\ Len(published) = 2
    /\ Len(sent["s1"]) = 2
    /\ FrameOf(sent["s1"][1]) = published[1]
    /\ FrameOf(sent["s1"][2]) = published[2]
    /\ spc["s2"] = "emit"
    /\ sent["s2"] = <<>>
    /\ jpeg_bytes["s2"] = published[2]

\* ---------------------------------------------------------------------- C3
\* C3 (empty before first publish): the slot is empty initially; while
\* nothing has been published the slot is empty, no session has got past its
\* emptiness check (it is settling, at its yield or checking), none has read
\* a frame and none has emitted a chunk.
C3_EmptyBeforeFirstPublish ==
    /\ lpc = "init" => frame_buffer = <<>>
    /\ published = <<>> =>
         /\ frame_buffer = <<>>
         /\ \A s \in Sessions :
              /\ spc[s] \notin {"read", "emit"}
              /\ jpeg_bytes[s] = <<>>
              /\ sent[s] = <<>>

\* A session checks the slot while the thread has encoded its first frame
\* but not yet published it.
C3_Witness ==
    /\ published = <<>>
    /\ cpc = "publish"
    /\ spc["s1"] = "check"
    /\ spc["s2"] = "yield"

\* ---------------------------------------------------------------------- C4
\* C4 (non-blocking publish): whenever the thread has an encoded frame ready,
\* the publish step can be taken, whatever the sessions are doing.
C4_NonBlockingPublish == cpc = "publish" => ENABLED CapturePublish

\* The thread is about to publish while one session is between its emptiness
\* check and its read and the other holds a chunk it has not yet emitted.
C4_Witness ==
    /\ cpc = "publish"
    /\ spc["s1"] = "read"
    /\ spc["s2"] = "emit"

\* ---------------------------------------------------------------------- C5
\* C5 (capture-open failure is non-fatal): when the camera did not open, the
\* thread has returned without reading or publishing, the service has come
\* up, the slot is empty, no session has emitted a chunk, and while the
\* service is up a new /video connection is accepted.
C5_OpenFailureNonFatal ==
    cexit = "no_camera" =>
        /\ cpc = "done"
        /\ nframes = 0
        /\ published = <<>>
        /\ frame_buffer = <<>>
        /\ host # "starting"
        /\ \A s \in Sessions :
             /\ sent[s] = <<>>
             /\ spc[s] \notin {"read", "emit", "faulted"}
             /\ (lpc = "serving" /\ spc[s] = "idle") => ENABLED Connect(s)

\* The camera did not open, the service is up and a session polls.
C5_Witness ==
    /\ cexit = "no_camera"
    /\ host = "up"
    /\ spc["s1"] = "check"
    /\ spc["s2"] = "idle"

\* ---------------------------------------------------------------------- C6
\* Steps of the thread, read off its program counter and exit reason: a read
\* or an encode that reports failure leaves the step without an exception
\* and without a result to go on with.
ReadFails == cpc = "read" /\ cpc' # "read" /\ cpc' # "encode" /\ cexit' # "exception"
EncodeFails == cpc = "encode" /\ cpc' # "encode" /\ cpc' # "publish" /\ cexit' # "exception"
EncodeSucceeds == cpc = "encode" /\ cpc' # "encode" /\ cpc' # "loop" /\ cexit' # "exception"

\* C6 (transient-error tolerance): a read or an encode that reports failure
\* publishes nothing, leaves the slot as it is and takes the thread back to
\* the loop condition, still running; an encode that succeeds takes it to the
\* publish, and the publish puts that very frame in the slot.
C6_TransientErrorTolerance ==
    [][/\ (ReadFails \/ EncodeFails) =>
            /\ cpc' = "loop"
            /\ cexit' = "none"
            /\ frame_buffer' = frame_buffer
            /\ published' = published
       /\ EncodeSucceeds =>
            /\ cpc' = "publish"
            /\ jpeg' = JpegOf(frame)
       /\ (cpc = "publish" /\ cpc' # "publish") =>
            /\ frame_buffer' = <<JpegOf(frame)>>
            /\ published' = Append(published, JpegOf(frame))]_vars

\* The first frame was read but not encoded, the second read failed once or
\* not at all, and the second frame has been published all the same.
C6_Witness ==
    /\ nframes = 2
    /\ published = <<JpegOf(2)>>
    /\ frame_buffer = <<JpegOf(2)>>
    /\ cpc = "sleep"
    /\ cexit = "none"

\* ---------------------------------------------------------------------- C7
\* C7 (stop signal): after stop_event.set() the thread publishes at most
\* once more; once it has returned, nothing is published and it stays
\* returned; and a started thread that keeps being scheduled returns
\* eventually after the stop event is set.
C7_StopTerminatesLoop ==
    /\ [](stopAt >= 0 => Len(published) <= stopAt + 1)
    /\ [][cpc = "done" => (cpc' = "done" /\ published' = published
                           /\ frame_buffer' = frame_buffer)]_vars
    /\ ((stop_event = "set" /\ cpc # "notstarted") ~> cpc = "done")

\* The stop event was set in the middle of an iteration, which published its
\* frame; the thread then saw the event and returned.
C7_Witness ==
    /\ stopAt >= 0
    /\ Len(published) = stopAt + 1
    /\ cpc = "done"
    /\ cexit = "stopped"

\* ---------------------------------------------------------------------- C8
\* C8 (multipart framing): a session's output changes only by its emit step,
\* and that step hands the host exactly one chunk: the header bytes, the
\* frame the session read at its peek, CR LF.  The frame it read at its peek
\* is the frame that was in the slot then.
C8_MultipartFraming ==
    [][\A s \in Sessions :
         /\ PeekStep(s) => jpeg_bytes'[s] = frame_buffer[1]
         /\ EmitStep(s) =>
              sent'[s] = LastTwo(Append(sent[s], MultipartHeader \o jpeg_bytes[s] \o CRLF))
         /\ ~EmitStep(s) => sent'[s] = sent[s]]_vars

\* One chunk emitted for the first frame, spelled out byte by byte.
C8_Witness ==
    sent["s1"] = << <<45, 45, 102, 114, 97, 109, 101, 13, 10,
                      67, 111, 110, 116, 101, 110, 116, 45, 84, 121, 112, 101, 58, 32,
                      105, 109, 97, 103, 101, 47, 106, 112, 101, 103, 13, 10,
                      13, 10,
                      255, 216, 1, 255, 217,
                      13, 10>> >>

\* ---------------------------------------------------------------------- C9
\* C9 (lifecycle stop on every exit path): the stop event exists and is unset
\* when the thread is launched; it is set when and only when lifespan has
\* run its finally clause, once; when the thread could not be started,
\* lifespan ends with the stop event set and the host sees the startup fail;
\* an exception never ends lifespan other than by reaching the host, and a
\* normal shutdown raises none.
C9_LifecycleStop ==
    /\ lpc = "try" => stop_event = "unset"
    /\ cpc # "notstarted" => stop_event # "uncreated"
    /\ lpc # "exited" => (nset = 0 /\ stop_event # "set"
                          /\ host \in {"starting", "up"})
    /\ lpc = "exited" => (nset = 1 /\ stop_event = "set")
    /\ (lpc = "exited" /\ cpc = "notstarted") => host = "startup_failed"
    /\ (lpc = "exited" /\ lexc # "none") => host = "startup_failed"
    /\ (lpc = "exited" /\ lexc = "none") => host = "down"

\* The thread could not be started: the stop event is set, once, and the
\* host has seen the startup fail.
C9_Witness ==
    /\ host = "startup_failed"
    /\ cpc = "notstarted"
    /\ stop_event = "set"
    /\ nset = 1

\* --------------------------------------------------------------------- C10
\* A device outage: the thread is running and its last read failed (or it
\* has not read yet).
Outage == cpc \in {"loop", "read"} /\ frame = 0

\* C10 as claimed: while the outage lasts no session emits a chunk, also when
\* frames were published before it.
C10_NoChunkDuringOutage ==
    [][(Outage /\ Outage') => \A s \in Sessions : ~EmitStep(s)]_vars

\* C10 as amended: while the outage lasts nothing is published and the slot
\* keeps its content; no session emits a chunk as long as nothing was ever
\* published; once a frame has been published, a session's emptiness check
\* during the outage finds the slot filled, a peek during the outage returns
\* the last published frame and a chunk emitted during the outage carries a
\* published frame.
C10_OutageKeepsLastFrame ==
    [][(Outage /\ Outage') =>
         /\ published' = published
         /\ frame_buffer' = frame_buffer
         /\ \A s \in Sessions :
              /\ published = <<>> => (~PeekStep(s) /\ ~EmitStep(s))
              /\ (published # <<>> /\ spc[s] = "check" /\ spc'[s] # "check") =>
                   spc'[s] = "read"
              /\ PeekStep(s) => jpeg_bytes'[s] = published[Len(published)]
              /\ EmitStep(s) =>
                   /\ sent'[s] # <<>>
                   /\ FrameOf(sent'[s][Len(sent'[s])]) \in Range(published)]_vars

\* Only the first frame was ever delivered, the reads fail since, and a
\* session has emitted that frame twice and holds it a third time.
C10_Witness ==
    /\ Outage
    /\ nframes = 1
    /\ sent["s1"] = <<MultipartHeader \o JpegOf(1) \o CRLF,
                      MultipartHeader \o JpegOf(1) \o CRLF>>
    /\ spc["s1"] = "emit"

\* --------------------------------------------------------------------- C11
\* Where a session's generator is running, and where it has ended.
Live == {"settle", "yield", "check", "read", "emit"}
Ended == {"cancelled", "faulted"}

\* C11 (non-destructive peek, sole writer): a step that changes the slot is
\* the thread's publish; a step of a session leaves the slot as it is, so
\* the frame a peek returns is still in the slot after the peek, for the
\* next peek of any session.
C11_PeekNonDestructive ==
    [][/\ frame_buffer' # frame_buffer =>
            (cpc = "publish" /\ cpc' = "sleep" /\ published' # published)
       /\ \A s \in Sessions :
            /\ spc'[s] # spc[s] => frame_buffer' = frame_buffer
            /\ PeekStep(s) => frame_buffer' = <<jpeg_bytes'[s]>>]_vars

\* Both sessions have peeked the one frame published so far, and it is still
\* in the slot.
C11_Witness ==
    /\ Len(published) = 1
    /\ spc["s1"] = "emit"
    /\ spc["s2"] = "emit"
    /\ jpeg_bytes["s1"] = published[1]
    /\ jpeg_bytes["s2"] = published[1]
    /\ frame_buffer = <<published[1]>>

\* --------------------------------------------------------------------- C12
\* C12 (no natural end): a connected session is always in its loop, cancelled
\* or faulted, never returned; while it is in its loop a step that goes on
\* is enabled, whatever the stop event and the thread are at; it gets
\* cancelled only at an await or at the yield and faults only at the read or
\* the yield of a chunk; a step of lifespan or of the thread ends no session;
\* and a session that has ended stays ended and emits nothing more.
C12_NoNaturalEnd ==
    /\ [](\A s \in Sessions :
            /\ spc[s] \in {"idle"} \cup Live \cup Ended
            /\ spc[s] \in Live => ENABLED SessionRun(s))
    /\ [][\A s \in Sessions :
            /\ (spc[s] # "cancelled" /\ spc'[s] = "cancelled") =>
                 spc[s] \in {"settle", "yield", "emit"}
            /\ (spc[s] # "faulted" /\ spc'[s] = "faulted") =>
                 spc[s] \in {"read", "emit"}
            /\ (lpc' # lpc \/ cpc' # cpc \/ stop_event' # stop_event) =>
                 spc'[s] = spc[s]
            /\ spc[s] \in Ended => (spc'[s] = spc[s] /\ sent'[s] = sent[s])]_vars

\* The stop event is set and the thread has returned; one session has peeked
\* the frame published after the stop event was set and is about to emit it,
\* the other was cancelled by the host.
C12_Witness ==
    /\ stop_event = "set"
    /\ cpc = "done"
    /\ Len(published) = stopAt + 1
    /\ spc["s1"] = "emit"
    /\ jpeg_bytes["s1"] = published[Len(published)]
    /\ spc["s2"] = "cancelled"

\* --------------------------------------------------------------------- C13
\* C13 (fire-and-forget shutdown): when the host shuts the service down,
\* lifespan can resume, and its finally clause can run and end, wherever the
\* thread is.
C13_FireAndForgetShutdown ==
    /\ lpc = "serving" => ENABLED LifespanLeave
    /\ lpc = "finally" => ENABLED LifespanFinally

\* lifespan has ended normally while the thread is in the middle of an
\* iteration, between its read and its encode.
C13_Witness ==
    /\ lpc = "exited"
    /\ host = "down"
    /\ cpc = "encode"

\* --------------------------------------------------------------------- C14
\* C14 (yield before every poll): a session enters its settle delay only on
\* connecting and leaves it only to the yield point (or cancelled); it
\* enters the emptiness check only from the yield point, the read only from
\* the check, the emit only from the read; and from the check on an empty
\* slot and from the emit it goes on only to the yield point.
C14_YieldBeforeEveryPoll ==
    [][\A s \in Sessions :
         /\ (spc'[s] = "settle" /\ spc[s] # "settle") => spc[s] = "idle"
         /\ (spc[s] = "settle" /\ spc'[s] # "settle") =>
              spc'[s] \in {"yield", "cancelled"}
         /\ (spc'[s] = "check" /\ spc[s] # "check") => spc[s] = "yield"
         /\ (spc'[s] = "read" /\ spc[s] # "read") => spc[s] = "check"
         /\ (spc'[s] = "emit" /\ spc[s] # "emit") => spc[s] = "read"
         /\ (spc[s] = "check" /\ spc'[s] # "check" /\ Len(frame_buffer) = 0) =>
              spc'[s] = "yield"
         /\ (spc[s] = "emit" /\ spc'[s] # "emit") =>
              spc'[s] \in {"yield", "cancelled", "faulted"}]_vars

\* One session is back at the yield point after emitting two chunks, the
\* other is at the yield point and has emitted nothing, with the thread
\* still running.
C14_Witness ==
    /\ spc["s1"] = "yield"
    /\ Len(sent["s1"]) = 2
    /\ spc["s2"] = "yield"
    /\ sent["s2"] = <<>>
    /\ cpc = "sleep"

\* --------------------------------------------------------------------- C15
\* C15 (fan-out without starvation): with the sessions scheduled fairly,
\* every session emits a chunk again and again, unless from some time on it
\* is not running (never connected, cancelled or faulted) or nothing is ever
\* published.
C15_FanOutNoStarvation ==
    \A s \in Sessions :
        \/ <>[](spc[s] \notin Live)
        \/ <>[](published = <<>>)
        \/ []<><<Emit(s)>>_vars

\* Both sessions have emitted two chunks each and are holding a third, and
\* the thread has returned.
C15_Witness ==
    /\ cpc = "done"
    /\ \A s \in Sessions : Len(sent[s]) = 2 /\ spc[s] = "emit"

\* --------------------------------------------------------------------- C16
\* A session faults: its generator raises the wrapped exception to the host.
FaultStep(s) == spc[s] # "faulted" /\ spc'[s] = "faulted"

\* C16 (stream chunk fault is isolated and not retried): the step in which a
\* session faults emits nothing and changes neither the slot, the thread,
\* lifespan and the stop event nor any other session; a faulted session
\* stays faulted and emits nothing more.
C16_ChunkFaultIsolated ==
    [][\A s \in Sessions :
         /\ FaultStep(s) =>
              /\ sent' = sent
              /\ frame_buffer' = frame_buffer
              /\ published' = published
              /\ <<cpc, cexit, nframes, frame, jpeg>>' = <<cpc, cexit, nframes, frame, jpeg>>
              /\ <<stop_event, lpc, lexc, host, nset>>' = <<stop_event, lpc, lexc, host, nset>>
              /\ \A o \in Sessions \ {s} :
                   spc'[o] = spc[o] /\ jpeg_bytes'[o] = jpeg_bytes[o]
         /\ spc[s] = "faulted" => (spc'[s] = "faulted" /\ sent'[s] = sent[s])]_vars

\* One session has faulted after emitting a chunk; the other holds a chunk
\* to emit and the thread is in its sleep.
C16_Witness ==
    /\ spc["s1"] = "faulted"
    /\ Len(sent["s1"]) = 1
    /\ spc["s2"] = "emit"
    /\ jpeg_bytes["s2"] # <<>>
    /\ cpc = "sleep"

\* --------------------------------------------------------------------- C17
\* C17 (unexpected capture-loop fault): when a call in the loop body raises,
\* the thread has returned (and, by C7, publishes nothing more); the step in
\* which it raises changes neither the slot, lifespan and what the host has
\* seen, nor any session; the host never sees a failure because of it; and a
\* session that is in its loop can go on.
C17_CaptureFaultEndsLoopOnly ==
    /\ [](cexit = "exception" =>
            /\ cpc = "done"
            /\ host \in {"up", "down"}
            /\ lexc = "none"
            /\ \A s \in Sessions : spc[s] \in Live => ENABLED SessionRun(s))
    /\ [][(cexit # "exception" /\ cexit' = "exception") =>
            /\ frame_buffer' = frame_buffer
            /\ published' = published
            /\ <<stop_event, lpc, lexc, host, nset>>' = <<stop_event, lpc, lexc, host, nset>>
            /\ <<spc, jpeg_bytes, sent>>' = <<spc, jpeg_bytes, sent>>]_vars
    /\ [][cexit = "exception" =>
            (cexit' = "exception" /\ published' = published
             /\ frame_buffer' = frame_buffer)]_vars

\* The thread has published one frame and then returned on an exception; the
\* service is up and a session has emitted that frame and peeked it again.
C17_Witness ==
    /\ cexit = "exception"
    /\ Len(published) = 1
    /\ host = "up"
    /\ spc["s1"] = "emit"
    /\ Len(sent["s1"]) = 1

\* --------------------------------------------------------------------- C18
\* C18 (duplicate re-emission): a session that peeks while the slot still
\* holds the frame of its last chunk gets that frame again, and a session
\* that holds the frame of its last chunk emits it again, so that its last
\* two chunks are equal.
C18_DuplicateReEmission ==
    [][\A s \in Sessions :
         sent[s] # <<>> =>
           /\ (PeekStep(s) /\ frame_buffer = <<FrameOf(sent[s][Len(sent[s])])>>) =>
                jpeg_bytes'[s] = FrameOf(sent[s][Len(sent[s])])
           /\ (EmitStep(s) /\ jpeg_bytes[s] = FrameOf(sent[s][Len(sent[s])])) =>
                /\ Len(sent'[s]) = 2
                /\ sent'[s][1] = sent'[s][2]
                /\ sent'[s][2] = sent[s][Len(sent[s])]]_vars

\* Only one frame was ever published, and a session has emitted it in two
\* consecutive chunks.
C18_Witness ==
    /\ Len(published) = 1
    /\ Len(sent["s1"]) = 2
    /\ sent["s1"][1] = sent["s1"][2]
    /\ FrameOf(sent["s1"][2]) = published[1]

\* --------------------------------------------------------------------- C19
\* C19 as claimed (sleep in every iteration): the thread comes back to the
\* loop condition only from its sleep (or, the first time, from opening the
\* camera), whether or not the iteration has published.
C19_SleepEveryIteration ==
    [][(cpc' = "loop" /\ cpc # "loop") => cpc \in {"open", "sleep"}]_vars

\* --------------------------------------------------------------------- C20
\* C20 (the slot never returns to empty): once something has been published
\* the slot is filled, and a filled slot stays filled through every step; a
\* session that is between its emptiness check and its read finds the slot
\* filled, and its read gives it a frame to emit, never an IndexError.
C20_SlotNeverEmptiesAgain ==
    /\ [](published # <<>> => frame_buffer # <<>>)
    /\ [](\A s \in Sessions : spc[s] = "read" => Len(frame_buffer) > 0)
    /\ [][frame_buffer # <<>> => frame_buffer' # <<>>]_vars
    /\ [][\A s \in Sessions :
            (spc[s] = "read" /\ spc'[s] # "read") =>
                (spc'[s] = "emit" /\ jpeg_bytes'[s] # <<>>)]_vars

\* A session has emitted the first frame and is between its check and its
\* read, the stop event is set and the thread has returned; the slot holds
\* the second frame.
C20_Witness ==
    /\ Len(published) = 2
    /\ frame_buffer = <<published[2]>>
    /\ spc["s1"] = "read"
    /\ sent["s1"] = <<MultipartHeader \o published[1] \o CRLF>>
    /\ stop_event = "set"
    /\ cexit = "stopped"

=============================================================================
